---- MODULE Spec2Model ----
(***************************************************************************)
(* Incremental indexer for Gemini File Search: index_create_local.py (the  *)
(* ./data directory, SHA-256 fingerprints, .store_name and                 *)
(* .indexed_files.json) and index_create_gcp_cloud.py (a GCS bucket, the   *)
(* blobs' md5_hash, config/store_name.txt and config/indexed_files.json).  *)
(* One indexer process runs at a time; the corpus changes under it.        *)
(***************************************************************************)
EXTENDS Integers, Sequences, FiniteSets, TLC

\* ---------------------------------------------------------------- bounds
\* store creations the model follows (create stops being enabled there)
MaxStores == 2
\* changes of the corpus by its owner the model follows
MaxChanges == 1

\* ------------------------------------------------------------- the corpus
\* the documents, in the order the listing returns them
IdOrder == <<"a.txt", "b.pdf">>
Ids == {IdOrder[i] : i \in 1..Len(IdOrder)}
\* content fingerprints
Fps == {"h1", "h2"}
\* Python's None: no ledger entry (dict.get), no md5_hash
None == "None"
\* a document that is not in the corpus
Missing == "missing"

\* ------------------------------------------------------------- characters
\* the text of the store name file is a sequence of characters; WS is
\* whitespace (a trailing newline), the others are the characters of a name
WS == " "

VARIABLES
    variant,        \* "local" (index_create_local.py) or "gcp" (index_create_gcp_cloud.py)
    corpus,         \* id -> content fingerprint of the document, or Missing
    hasMd5,         \* id -> the blob carries an md5_hash (always TRUE locally)
    nChanges,       \* corpus changes so far
    storeFile,      \* .store_name / config/store_name.txt: [exists, text]
    ledgerFile,     \* .indexed_files.json: [kind, map]
    tmpFiles,       \* /tmp copies staged by the GCS indexer: id -> content
    storesCreated,  \* file_search_stores.create calls served so far
    indexed,        \* <<id, fp>> of the upload operations that reached done
    pc,             \* position of the indexer process
    store_name,     \* incremental_index: store_name
    state,          \* incremental_index: state (the in-memory ledger)
    candidates,     \* the enumerated (id, fp) pairs
    new_or_changed, \* incremental_index: new_or_changed
    idx,            \* position in the loop being executed
    op,             \* the upload operation handle: "none", "pending", "done"
    classified,     \* id -> what the detect loop printed: NEW, CHANGED, SKIP
    loaded,         \* the ledger as load_index_state returned it (history)
    runUploads,     \* this run's upload calls: [id, fp, content] (history)
    staged,         \* ids whose temporary copy this run created (history)
    changedInRun,   \* the corpus changed since this run started (history)
    prevDone,       \* the previous run completed and the corpus has not changed since its end
    prevClean,      \* ... and not since its start either
    freshLedger,    \* the ledger was absent or empty initially (history)
    appPc,          \* the query service (app.py / app_remote.py): "down", "serving", "crashed"
    STORE_NAME,     \* app.py: STORE_NAME, loaded once when the module is imported
    response,       \* the last response of the query service
    other           \* the locals of a second indexer process, while the first one runs

envVars == <<variant, corpus, hasMd5, nChanges>>
diskVars == <<storeFile, ledgerFile, tmpFiles>>
svcVars == <<storesCreated, indexed>>
runVars == <<pc, store_name, state, candidates, new_or_changed, idx, op>>
histVars == <<classified, loaded, runUploads, staged, changedInRun, prevDone, prevClean, freshLedger>>
auxVars == <<appPc, STORE_NAME, response, other>>
vars == <<envVars, diskVars, svcVars, runVars, histVars, auxVars>>

\* ------------------------------------------------------------------ maps
\* a Python dict of identifier -> fingerprint
EmptyMap == [x \in {} |-> None]
\* dict.get(k): None when the key is missing
Get(m, k) == IF k \in DOMAIN m THEN m[k] ELSE None
\* m[k] = v
Put(m, k, v) == [x \in (DOMAIN m) \cup {k} |-> IF x = k THEN v ELSE m[x]]

\* --------------------------------------------------------------- str.strip
RECURSIVE LStrip(_)
LStrip(s) == IF s # <<>> /\ Head(s) = WS THEN LStrip(Tail(s)) ELSE s
RECURSIVE RStrip(_)
RStrip(s) == IF s # <<>> /\ s[Len(s)] = WS THEN RStrip(SubSeq(s, 1, Len(s) - 1)) ELSE s
Strip(s) == RStrip(LStrip(s))

\* load_store_name without the strip()
load_store_name_unstripped(f) == IF f.exists THEN f.text ELSE <<>>

\* load_store_name_from_gcs: "" when the blob is missing, else the stripped text;
\* locally the same value decides the branch of load_or_create_store
load_store_name(f) == IF f.exists THEN Strip(f.text) ELSE <<>>

\* m without the key k
Del(m, k) == [x \in (DOMAIN m) \ {k} |-> m[x]]

\* ------------------------------------------------------------------- JSON
\* the keys a ledger can hold, in sorted order (the documents of the corpus
\* and one that is in no corpus of the model)
KeyOrder == IdOrder \o <<"c.doc">>

\* the members of a JSON object: <<key, value>> for the keys of order that m has
RECURSIVE Members(_, _)
Members(order, m) ==
    IF order = <<>> THEN <<>>
    ELSE (IF Head(order) \in DOMAIN m THEN <<<<Head(order), m[Head(order)]>>>> ELSE <<>>)
            \o Members(Tail(order), m)

\* json.dumps writing the members but the last one
json_dumps_truncated(m) ==
    LET t == Members(KeyOrder, m) IN IF t = <<>> THEN t ELSE SubSeq(t, 1, Len(t) - 1)

\* json.dumps(state, indent=2, sort_keys=True): the members in key order
json_dumps(m) == Members(KeyOrder, m)

\* json.loads: the dict of the members, a later member replacing an earlier one
RECURSIVE json_loads(_)
json_loads(t) ==
    IF t = <<>> THEN EmptyMap
    ELSE LET rest == json_loads(SubSeq(t, 1, Len(t) - 1))
         IN Put(rest, t[Len(t)][1], t[Len(t)][2])

\* the persisted files
NoFile == [exists |-> FALSE, text |-> <<>>]
TextFile(t) == [exists |-> TRUE, text |-> t]
NoLedger == [kind |-> "absent", text |-> <<>>]
MalformedLedger == [kind |-> "malformed", text |-> <<>>]
\* save_index_state: json.dump(state, f, indent=2, sort_keys=True)
LedgerOf(m) == [kind |-> "ok", text |-> json_dumps(m)]
\* load_index_state on a file that parses: {} when it is missing, json.load otherwise
index_state(f) == IF f.kind = "absent" THEN EmptyMap ELSE json_loads(f.text)
\* the ledger as persisted
persisted == index_state(ledgerFile)

\* file_search_stores.create: the n-th store the service creates gets a new name
NewStoreName(n) == <<"s" \o ToString(n)>>

\* the fingerprint the GCS listing reports for a blob (blob.md5_hash or None)
md5_hash(id) == IF hasMd5[id] THEN corpus[id] ELSE None

\* ------------------------------------------------------------------ Init
\* the query service has answered nothing yet
NoResponse == [kind |-> "none"]
\* the locals of an indexer process that is not running
IdleProcess ==
    [pc |-> "idle", store_name |-> <<>>, state |-> EmptyMap, candidates |-> <<>>,
     new_or_changed |-> <<>>, idx |-> 0, op |-> "none", classified |-> EmptyMap,
     loaded |-> EmptyMap, runUploads |-> <<>>, staged |-> {}]

\* the corpora a first run finds: both documents, or the first one only
InitCorpora == {[i \in Ids |-> IF i = "a.txt" THEN "h1" ELSE c] : c \in {"h2", Missing}}
\* the ledgers earlier runs left: up to date for a.txt, up to date for both,
\* out of date for b.pdf
InitLedgers ==
    { [i \in {"a.txt"} |-> "h1"],
      [i \in Ids |-> IF i = "a.txt" THEN "h1" ELSE "h2"],
      [i \in {"b.pdf"} |-> "h1"] }

Init ==
    /\ variant \in {"local", "gcp"}
    /\ corpus \in InitCorpora
    /\ hasMd5 \in [Ids -> BOOLEAN]
    /\ \A i \in Ids : (variant = "local" \/ corpus[i] = Missing) => hasMd5[i]
    /\ hasMd5["a.txt"]
    /\ nChanges = 0
    /\ storeFile \in {NoFile, TextFile(<<WS>>), TextFile(<<"s0", WS>>)}
    /\ ledgerFile \in {NoLedger, MalformedLedger} \cup {LedgerOf(m) : m \in InitLedgers}
    /\ tmpFiles = EmptyMap
    /\ storesCreated = 0
    /\ indexed = {}
    /\ pc = "idle"
    /\ store_name = <<>>
    /\ state = EmptyMap
    /\ candidates = <<>>
    /\ new_or_changed = <<>>
    /\ idx = 0
    /\ op = "none"
    /\ classified = EmptyMap
    /\ loaded = EmptyMap
    /\ runUploads = <<>>
    /\ staged = {}
    /\ changedInRun = FALSE
    /\ prevDone = FALSE
    /\ prevClean = FALSE
    /\ freshLedger = (ledgerFile \in {NoLedger, LedgerOf(EmptyMap)})
    /\ appPc = "down"
    /\ STORE_NAME = <<>>
    /\ response = NoResponse
    /\ other = IdleProcess

\* the process has no memory left once it has exited or was killed
ProcessGone ==
    /\ pc' = "idle"
    /\ store_name' = <<>>
    /\ state' = EmptyMap
    /\ candidates' = <<>>
    /\ new_or_changed' = <<>>
    /\ idx' = 0
    /\ op' = "none"
    /\ classified' = EmptyMap
    /\ loaded' = EmptyMap
    /\ runUploads' = <<>>
    /\ staged' = {}
    /\ changedInRun' = FALSE

\* ------------------------------------------------------------ environment
\* the owner of the corpus adds, removes or rewrites a document, or a blob is
\* replaced by one that carries no md5_hash (GCS only)
ChangeCorpus ==
    /\ nChanges < MaxChanges
    /\ \E id \in Ids, c \in Fps \cup {Missing}, m \in BOOLEAN :
        /\ variant = "local" => m
        /\ c = Missing => m
        /\ <<c, m>> # <<corpus[id], hasMd5[id]>>
        /\ corpus' = [corpus EXCEPT ![id] = c]
        /\ hasMd5' = [hasMd5 EXCEPT ![id] = m]
    /\ nChanges' = nChanges + 1
    /\ changedInRun' = TRUE
    /\ prevDone' = FALSE
    /\ prevClean' = FALSE
    /\ UNCHANGED <<variant, diskVars, svcVars, runVars>>
    /\ UNCHANGED <<classified, loaded, runUploads, staged, freshLedger>>
    /\ UNCHANGED auxVars

\* ---------------------------------------------------------------- a run
\* python index_create_*.py: incremental_index() starts (make_client)
StartRun ==
    /\ pc = "idle"
    /\ pc' = "load_store"
    /\ changedInRun' = FALSE
    /\ UNCHANGED <<envVars, diskVars, svcVars>>
    /\ UNCHANGED <<store_name, state, candidates, new_or_changed, idx, op>>
    /\ UNCHANGED <<classified, loaded, runUploads, staged, prevDone, prevClean, freshLedger>>
    /\ UNCHANGED auxVars

\* load_or_create_store, step 1: a persisted non-empty name is used as it is
load_or_create_store ==
    /\ pc = "load_store"
    /\ LET name == load_store_name(storeFile) IN
        IF name # <<>>
        THEN store_name' = name /\ pc' = "load_state"
        ELSE store_name' = store_name /\ pc' = "create"
    /\ UNCHANGED <<envVars, diskVars, svcVars, histVars>>
    /\ UNCHANGED <<state, candidates, new_or_changed, idx, op>>
    /\ UNCHANGED auxVars

\* load_or_create_store, step 2: client.file_search_stores.create
create_store ==
    /\ pc = "create"
    /\ storesCreated < MaxStores
    /\ storesCreated' = storesCreated + 1
    /\ store_name' = NewStoreName(storesCreated + 1)
    /\ pc' = "persist_store"
    /\ UNCHANGED <<envVars, diskVars, indexed, histVars>>
    /\ UNCHANGED <<state, candidates, new_or_changed, idx, op>>
    /\ UNCHANGED auxVars

\* load_or_create_store: the name is written to the store name file
save_store_name ==
    /\ pc = "persist_store"
    /\ storeFile' = TextFile(store_name)
    /\ pc' = "load_state"
    /\ UNCHANGED <<envVars, ledgerFile, tmpFiles, svcVars, histVars>>
    /\ UNCHANGED <<store_name, state, candidates, new_or_changed, idx, op>>
    /\ UNCHANGED auxVars

\* json.load swallowed: text that is not JSON read as an empty ledger
json_load_never_raises(f) == FALSE

\* json.load / json.loads raises on text that is not JSON
json_load_raises(f) == f.kind = "malformed"

\* load_index_state: {} when the file is missing, json.load otherwise, which
\* raises on text that is not JSON
load_index_state ==
    /\ pc = "load_state"
    /\ IF json_load_raises(ledgerFile)
       THEN /\ pc' = "aborted"
            /\ UNCHANGED <<state, loaded>>
       ELSE /\ pc' = "list"
            /\ state' = index_state(ledgerFile)
            /\ loaded' = index_state(ledgerFile)
    /\ UNCHANGED <<envVars, diskVars, svcVars>>
    /\ UNCHANGED <<store_name, candidates, new_or_changed, idx, op>>
    /\ UNCHANGED <<classified, runUploads, staged, changedInRun, prevDone, prevClean, freshLedger>>
    /\ UNCHANGED auxVars

\* the ids of seq, in order, that satisfy present
RECURSIVE Listing(_, _)
Listing(seq, present) ==
    IF seq = <<>> THEN <<>>
    ELSE (IF Head(seq) \in present THEN <<Head(seq)>> ELSE <<>>) \o Listing(Tail(seq), present)

\* list_candidate_blobs (GCS): (name, md5_hash or None) of every blob;
\* os.listdir (local): the names only, the hash is computed in the detect loop
list_candidate_blobs ==
    /\ pc = "list"
    /\ LET names == Listing(IdOrder, {i \in Ids : corpus[i] # Missing}) IN
        candidates' = [k \in 1..Len(names) |->
            [id |-> names[k], fp |-> IF variant = "gcp" THEN md5_hash(names[k]) ELSE None]]
    /\ idx' = 1
    /\ pc' = "detect"
    /\ UNCHANGED <<envVars, diskVars, svcVars, histVars>>
    /\ UNCHANGED <<store_name, state, new_or_changed, op>>
    /\ UNCHANGED auxVars

\* the detect loop with the comparison inverted: a changed file is skipped
classify_local_inverted(old_hash, h) ==
    IF old_hash = None THEN "NEW"
    ELSE IF old_hash = h THEN "CHANGED"
    ELSE "SKIP"

\* the branch of the detect loop (local: h never None)
classify_local(old_hash, h) ==
    IF old_hash = None THEN "NEW"
    ELSE IF old_hash # h THEN "CHANGED"
    ELSE "SKIP"

\* the detect loop comparing only the fingerprints that are present
classify_gcp_present_only(old_hash, md5) ==
    IF old_hash = None THEN "NEW"
    ELSE IF md5 # None /\ old_hash # md5 THEN "CHANGED"
    ELSE "SKIP"

\* the branch of the detect loop (GCS)
classify_gcp(old_hash, md5) ==
    IF old_hash = None THEN "NEW"
    ELSE IF md5 = None \/ old_hash # md5 THEN "CHANGED"
    ELSE "SKIP"

classify(v, old_hash, fp) ==
    IF v = "local" THEN classify_local(old_hash, fp) ELSE classify_gcp(old_hash, fp)

\* the detect loop appending in the skip branch too
appended_always(noc, label, item) == Append(noc, item)

\* new_or_changed.append(...) in the NEW and CHANGED branches, not in the skip branch
appended(noc, label, item) == IF label = "SKIP" THEN noc ELSE Append(noc, item)

\* one iteration of the detect loop
detect ==
    /\ pc = "detect"
    /\ idx <= Len(candidates)
    /\ LET id == candidates[idx].id
           gone == variant = "local" /\ corpus[id] = Missing
           fp == IF variant = "local" THEN corpus[id] ELSE candidates[idx].fp
           label == classify(variant, Get(state, id), fp)
       IN IF gone
          THEN UNCHANGED <<candidates, new_or_changed, classified>>
          ELSE /\ candidates' = [candidates EXCEPT ![idx].fp = fp]
               /\ classified' = Put(classified, id, label)
               /\ new_or_changed' = appended(new_or_changed, label, [id |-> id, fp |-> fp])
    /\ idx' = idx + 1
    /\ UNCHANGED <<envVars, diskVars, svcVars>>
    /\ UNCHANGED <<pc, store_name, state, op>>
    /\ UNCHANGED <<loaded, runUploads, staged, changedInRun, prevDone, prevClean, freshLedger>>
    /\ UNCHANGED auxVars

\* where the upload loop starts an iteration: the GCS indexer stages a copy first
IterationStart == IF variant = "gcp" THEN "stage" ELSE "upload"

\* after the detect loop: return when there is nothing to upload
end_detect ==
    /\ pc = "detect"
    /\ idx > Len(candidates)
    /\ IF new_or_changed = <<>>
       THEN pc' = "done" /\ idx' = idx
       ELSE pc' = IterationStart /\ idx' = 1
    /\ UNCHANGED <<envVars, diskVars, svcVars, histVars>>
    /\ UNCHANGED <<store_name, state, candidates, new_or_changed, op>>
    /\ UNCHANGED auxVars

\* blob.download_to_filename(tmp_path) (GCS only)
download_to_filename ==
    /\ pc = "stage"
    /\ LET id == new_or_changed[idx].id IN
        /\ corpus[id] # Missing
        /\ tmpFiles' = Put(tmpFiles, id, corpus[id])
        /\ staged' = staged \cup {id}
    /\ pc' = "upload"
    /\ UNCHANGED <<envVars, storeFile, ledgerFile, svcVars>>
    /\ UNCHANGED <<store_name, state, candidates, new_or_changed, idx, op>>
    /\ UNCHANGED <<classified, loaded, runUploads, changedInRun, prevDone, prevClean, freshLedger>>
    /\ UNCHANGED auxVars

\* upload_to_file_search_store: the file is read now; the operation may be
\* done at once or pending
upload_to_file_search_store ==
    /\ pc = "upload"
    /\ LET id == new_or_changed[idx].id
           fp == new_or_changed[idx].fp
           content == IF variant = "local" THEN corpus[id]
                      ELSE IF id \in DOMAIN tmpFiles THEN tmpFiles[id] ELSE Missing
       IN /\ content # Missing
          /\ runUploads' = Append(runUploads, [id |-> id, fp |-> fp, content |-> content])
          /\ \E d \in {"pending", "done"} :
                /\ op' = d
                /\ indexed' = IF d = "done" THEN indexed \cup {<<id, fp>>} ELSE indexed
    /\ pc' = "poll"
    /\ UNCHANGED <<envVars, diskVars, storesCreated>>
    /\ UNCHANGED <<store_name, state, candidates, new_or_changed, idx>>
    /\ UNCHANGED <<classified, loaded, staged, changedInRun, prevDone, prevClean, freshLedger>>
    /\ UNCHANGED auxVars

\* the poll loop left without looking at done
poll_loop_exits_at_once(o) == TRUE

\* while not getattr(op, "done", False): the loop is left when done is true
poll_loop_exits(o) == o = "done"

\* the commit forgotten: the in-memory ledger stays as loaded
committed_nothing(v, st, id, fp) == st

\* the commit without the GCS indexer's "if md5 is not None"
committed_always(v, st, id, fp) == Put(st, id, fp)

\* state[fname] = h (local); if md5 is not None: state[blob_name] = md5 (GCS)
committed(v, st, id, fp) == IF v = "gcp" /\ fp = None THEN st ELSE Put(st, id, fp)

\* while not op.done: sleep; op = client.operations.get(op), the poll that
\* finds the operation done (one that finds it pending changes nothing)
operations_get ==
    /\ pc = "poll"
    /\ ~poll_loop_exits(op)
    /\ op = "pending"
    /\ op' = "done"
    /\ indexed' = indexed \cup {<<new_or_changed[idx].id, new_or_changed[idx].fp>>}
    /\ UNCHANGED <<envVars, diskVars, storesCreated, histVars>>
    /\ UNCHANGED <<pc, store_name, state, candidates, new_or_changed, idx>>
    /\ UNCHANGED auxVars

\* after the poll loop: state[name] = fingerprint (GCS: unless it is None),
\* the temporary copy is removed, the loop goes on or ends
commit ==
    /\ pc = "poll"
    /\ poll_loop_exits(op)
    /\ LET id == new_or_changed[idx].id
           fp == new_or_changed[idx].fp
       IN /\ state' = committed(variant, state, id, fp)
          /\ tmpFiles' = IF variant = "gcp" THEN Del(tmpFiles, id) ELSE tmpFiles
    /\ op' = "none"
    /\ idx' = idx + 1
    /\ pc' = IF idx < Len(new_or_changed) THEN IterationStart ELSE "save"
    /\ UNCHANGED <<envVars, storeFile, ledgerFile, svcVars, histVars>>
    /\ UNCHANGED <<store_name, candidates, new_or_changed>>
    /\ UNCHANGED auxVars

\* the ledger on disk read again and merged with the in-memory one
save_index_state_merging ==
    /\ pc = "save"
    /\ ledgerFile' = LedgerOf([i \in DOMAIN persisted \cup DOMAIN state |->
                                IF i \in DOMAIN state THEN state[i] ELSE persisted[i]])
    /\ pc' = "done"
    /\ UNCHANGED <<envVars, storeFile, tmpFiles, svcVars, histVars>>
    /\ UNCHANGED <<store_name, state, candidates, new_or_changed, idx, op>>
    /\ UNCHANGED auxVars

\* save_index_state(state)
save_index_state ==
    /\ pc = "save"
    /\ ledgerFile' = LedgerOf(state)
    /\ pc' = "done"
    /\ UNCHANGED <<envVars, storeFile, tmpFiles, svcVars, histVars>>
    /\ UNCHANGED <<store_name, state, candidates, new_or_changed, idx, op>>
    /\ UNCHANGED auxVars

\* the failure caught and the ledger saved as far as it got
Fail_saving ==
    /\ \/ pc = "stage"
       \/ pc = "upload"
       \/ pc = "poll" /\ ~poll_loop_exits(op)
    /\ pc' = "aborted"
    /\ ledgerFile' = LedgerOf(state)
    /\ UNCHANGED <<envVars, storeFile, tmpFiles, svcVars, histVars>>
    /\ UNCHANGED <<store_name, state, candidates, new_or_changed, idx, op>>
    /\ UNCHANGED auxVars

\* the download, the upload call or a poll raises: nothing catches it
Fail ==
    /\ \/ pc = "stage"
       \/ pc = "upload"
       \/ pc = "poll" /\ ~poll_loop_exits(op)
    /\ pc' = "aborted"
    /\ UNCHANGED <<envVars, diskVars, svcVars, histVars>>
    /\ UNCHANGED <<store_name, state, candidates, new_or_changed, idx, op>>
    /\ UNCHANGED auxVars

\* the process exits: normally after "done", with a traceback after "aborted"
Exit ==
    /\ pc \in {"done", "aborted"}
    /\ prevDone' = (pc = "done")
    /\ prevClean' = (pc = "done" /\ ~changedInRun)
    /\ ProcessGone
    /\ UNCHANGED <<envVars, diskVars, svcVars, freshLedger>>
    /\ UNCHANGED auxVars

\* the kill handled by a handler that saves the in-memory ledger
Interrupt_saving ==
    /\ pc \notin {"idle", "done", "aborted"}
    /\ ledgerFile' = LedgerOf(state)
    /\ prevDone' = FALSE
    /\ prevClean' = FALSE
    /\ ProcessGone
    /\ UNCHANGED <<envVars, storeFile, tmpFiles, svcVars, freshLedger>>
    /\ UNCHANGED auxVars

\* the process is killed at any step; killed inside save_index_state
\* (open(..., "w") has truncated the file, json.dump has not finished) it may
\* leave text that is not JSON
Interrupt ==
    /\ pc \notin {"idle", "done", "aborted"}
    /\ ledgerFile' \in IF variant = "local" /\ pc = "save"
                       THEN {ledgerFile, MalformedLedger} ELSE {ledgerFile}
    /\ prevDone' = FALSE
    /\ prevClean' = FALSE
    /\ ProcessGone
    /\ UNCHANGED <<envVars, storeFile, tmpFiles, svcVars, freshLedger>>
    /\ UNCHANGED auxVars

Next ==
    \/ ChangeCorpus
    \/ StartRun
    \/ load_or_create_store
    \/ create_store
    \/ save_store_name
    \/ load_index_state
    \/ list_candidate_blobs
    \/ detect
    \/ end_detect
    \/ download_to_filename
    \/ upload_to_file_search_store
    \/ operations_get
    \/ commit
    \/ save_index_state
    \/ Fail
    \/ Exit
    \/ Interrupt

Spec == Init /\ [][Next]_vars

\* ------------------------------------------------- the ledger round trip
\* the fingerprints and the well-formed ledgers the round trip is tried on
RtFps == Fps \cup {"h3"}
RtLedgers == UNION {[D -> RtFps] : D \in SUBSET {KeyOrder[i] : i \in 1..Len(KeyOrder)}}

\* a process that holds a ledger in memory, with or without a persisted one
InitRoundTrip ==
    /\ variant \in {"local", "gcp"}
    /\ corpus = [i \in Ids |-> Missing]
    /\ hasMd5 = [i \in Ids |-> TRUE]
    /\ nChanges = 0
    /\ storeFile = NoFile
    /\ ledgerFile = NoLedger
    /\ tmpFiles = EmptyMap
    /\ storesCreated = 0
    /\ indexed = {}
    /\ pc = "rt"
    /\ store_name = <<>>
    /\ state \in RtLedgers
    /\ candidates = <<>>
    /\ new_or_changed = <<>>
    /\ idx = 0
    /\ op = "none"
    /\ classified = EmptyMap
    /\ loaded = EmptyMap
    /\ runUploads = <<>>
    /\ staged = {}
    /\ changedInRun = FALSE
    /\ prevDone = FALSE
    /\ prevClean = FALSE
    /\ freshLedger = TRUE
    /\ appPc = "down"
    /\ STORE_NAME = <<>>
    /\ response = NoResponse
    /\ other = IdleProcess

\* save_index_state(state) / save_index_state_to_gcs(bucket, state)
round_trip_save ==
    /\ pc = "rt"
    /\ ledgerFile' = LedgerOf(state)
    /\ pc' = "rt_saved"
    /\ UNCHANGED <<envVars, storeFile, tmpFiles, svcVars, histVars, auxVars>>
    /\ UNCHANGED <<store_name, state, candidates, new_or_changed, idx, op>>

\* load_index_state() / load_index_state_from_gcs(bucket), after the save or
\* with nothing persisted
round_trip_load ==
    /\ pc \in {"rt", "rt_saved"}
    /\ ~json_load_raises(ledgerFile)
    /\ loaded' = index_state(ledgerFile)
    /\ pc' = IF pc = "rt" THEN "rt_nothing" ELSE "rt_loaded"
    /\ UNCHANGED <<envVars, diskVars, svcVars, auxVars>>
    /\ UNCHANGED <<store_name, state, candidates, new_or_changed, idx, op>>
    /\ UNCHANGED <<classified, runUploads, staged, changedInRun, prevDone, prevClean, freshLedger>>

NextRoundTrip ==
    \/ round_trip_save
    \/ round_trip_load

SpecRoundTrip == InitRoundTrip /\ [][NextRoundTrip]_vars

\* ------------------------------------------------------ the query service
\* the questions a client asks
Queries == {"q1", "q2"}

\* load_store_name raising only when the file is missing
load_store_name_raises_if_missing(f) == ~f.exists

\* app.py load_store_name / app_remote.py load_store_name_from_gcs: RuntimeError
\* when the file (blob) is missing or its stripped text is empty
load_store_name_raises(f) == ~f.exists \/ Strip(f.text) = <<>>

\* uvicorn imports the module: STORE_NAME = load_store_name(); an exception
\* ends the process before it serves
app_start ==
    /\ appPc = "down"
    /\ IF load_store_name_raises(storeFile)
       THEN appPc' = "crashed" /\ STORE_NAME' = STORE_NAME
       ELSE appPc' = "serving" /\ STORE_NAME' = load_store_name(storeFile)
    /\ UNCHANGED <<envVars, diskVars, svcVars, runVars, histVars, response, other>>

\* the service process is stopped, or its failed start is noticed
app_stop ==
    /\ appPc \in {"serving", "crashed"}
    /\ appPc' = "down"
    /\ STORE_NAME' = <<>>
    /\ response' = NoResponse
    /\ UNCHANGED <<envVars, diskVars, svcVars, runVars, histVars, other>>

\* GET /status
status ==
    /\ appPc = "serving"
    /\ response' = [kind |-> "status", store_name |-> STORE_NAME,
                    ready |-> STORE_NAME # <<>>, query |-> None]
    /\ UNCHANGED <<envVars, diskVars, svcVars, runVars, histVars, appPc, STORE_NAME, other>>

\* POST /ask: HTTP 500 without a store name, else generate_content with the
\* File Search tool on [STORE_NAME]
ask_question ==
    /\ appPc = "serving"
    /\ \E q \in Queries :
        response' = IF STORE_NAME = <<>>
                    THEN [kind |-> "error", store_name |-> STORE_NAME, ready |-> FALSE, query |-> q]
                    ELSE [kind |-> "answer", store_name |-> STORE_NAME, ready |-> TRUE, query |-> q]
    /\ UNCHANGED <<envVars, diskVars, svcVars, runVars, histVars, appPc, STORE_NAME, other>>

\* the query service beside an indexer that gets as far as its store
InitApp == Init /\ ledgerFile = NoLedger /\ corpus["b.pdf"] = Missing

NextApp ==
    \/ app_start
    \/ app_stop
    \/ status
    \/ ask_question
    \/ StartRun
    \/ load_or_create_store
    \/ create_store
    \/ save_store_name
    \/ Interrupt

SpecApp == InitApp /\ [][NextApp]_vars

\* ------------------------------------------- a run that nothing disturbs
\* the steps of the indexer's own code: sequential Python, each statement is
\* executed once the one before it has returned
RunStep ==
    \/ StartRun
    \/ load_or_create_store
    \/ create_store
    \/ save_store_name
    \/ load_index_state
    \/ list_candidate_blobs
    \/ detect
    \/ end_detect
    \/ download_to_filename
    \/ upload_to_file_search_store
    \/ commit
    \/ save_index_state

\* one run, no failing call, no kill, the corpus left alone; whether the
\* service ever reports an operation done is up to the service
NextLive == RunStep \/ operations_get

SpecLive == Init /\ [][NextLive]_vars /\ WF_vars(RunStep)


\* ------------------------------------- runs that are killed and started again
\* the corpus left alone and no failing call: a run ends by itself or is killed
NextRetry == RunStep \/ operations_get \/ Interrupt \/ Exit

SpecRetry == Init /\ [][NextRetry]_vars

\* --------------------------------------------- two indexer processes at once
\* the locals of the process that is taking steps
Locals ==
    [pc |-> pc, store_name |-> store_name, state |-> state, candidates |-> candidates,
     new_or_changed |-> new_or_changed, idx |-> idx, op |-> op, classified |-> classified,
     loaded |-> loaded, runUploads |-> runUploads, staged |-> staged]

\* the scheduler lets the other process take the next steps: nothing in the
\* code (no lock file, no exclusive open) keeps it from doing so at any point
Switch ==
    /\ other' = Locals
    /\ pc' = other.pc
    /\ store_name' = other.store_name
    /\ state' = other.state
    /\ candidates' = other.candidates
    /\ new_or_changed' = other.new_or_changed
    /\ idx' = other.idx
    /\ op' = other.op
    /\ classified' = other.classified
    /\ loaded' = other.loaded
    /\ runUploads' = other.runUploads
    /\ staged' = other.staged
    /\ UNCHANGED <<envVars, diskVars, svcVars>>
    /\ UNCHANGED <<changedInRun, prevDone, prevClean, freshLedger>>
    /\ UNCHANGED <<appPc, STORE_NAME, response>>

\* two runs, each one started once, over a corpus that its owner may change
NextTwo == RunStep \/ operations_get \/ Switch \/ ChangeCorpus

\* both are started on a first deployment or after a run that indexed a.txt
InitTwo ==
    /\ Init
    /\ storeFile \in {NoFile, TextFile(<<"s0", WS>>)}
    /\ ledgerFile \in {NoLedger, LedgerOf([i \in {"a.txt"} |-> "h1"])}

SpecTwo == InitTwo /\ [][NextTwo]_vars

\* ================================================================ claims
\* the class the reconciliation rule gives (id, fp) against the ledger L
ExpectedClass(L, id, fp) ==
    IF id \notin DOMAIN L THEN "NEW"
    ELSE IF fp = None \/ L[id] # fp THEN "CHANGED"
    ELSE "SKIP"

\* the candidates the detect loop has classified so far
Classified == {k \in 1..Len(candidates) : candidates[k].id \in DOMAIN classified}

\* C1: every candidate (id, fp) the detect loop has classified got the class
\* the rule gives it against the ledger loaded at the start of the run: NEW
\* when id is not in it, CHANGED when it is and fp is absent or differs, SKIP
\* (unchanged) when fp is present and equal; absent fp is never SKIP
C1_Classification ==
    \A k \in Classified :
        LET c == candidates[k] IN
            /\ classified[c.id] = ExpectedClass(loaded, c.id, c.fp)
            /\ c.fp = None => classified[c.id] # "SKIP"

\* C1 witness: one run classified a document without fingerprint that the
\* ledger knows as CHANGED and another document as unchanged
C1_Witness ==
    \E j, k \in Classified :
        /\ candidates[j].fp = None
        /\ candidates[j].id \in DOMAIN loaded
        /\ classified[candidates[j].id] = "CHANGED"
        /\ classified[candidates[k].id] = "SKIP"

\* every candidate of the corpus has a fingerprint
AllFingerprinted == \A i \in Ids : hasMd5[i]

\* C2 as stated: after a run that completed, with no change of the corpus
\* since it ended, the next run uploads nothing
C2_Original == prevDone => runUploads = <<>>

\* C2 as amended: after a run that completed, with no change of the corpus
\* since it started and every candidate carrying a fingerprint, the next run
\* uploads nothing
C2_Idempotent == (prevClean /\ AllFingerprinted) => runUploads = <<>>

\* C2 witness: the ledger started empty, and the run after a completed one
\* over the same corpus found both documents and ended without an upload
C2_Witness ==
    /\ freshLedger
    /\ prevClean
    /\ AllFingerprinted
    /\ pc = "done"
    /\ Len(candidates) = 2
    /\ runUploads = <<>>

\* C3: after a run that completed, the persisted entry of every document
\* uploaded with a fingerprint is the fingerprint its content had when the
\* upload was submitted
C3_LedgerIsUploadFingerprint ==
    pc = "done" =>
        \A k \in 1..Len(runUploads) :
            runUploads[k].fp # None =>
                Get(persisted, runUploads[k].id) = runUploads[k].content

\* C4: from an absent or empty ledger on, every persisted entry (id, fp) is
\* the (id, fp) of an upload operation that has reached done
C4_LedgerOnlyAfterDone ==
    freshLedger =>
        \A id \in DOMAIN persisted : <<id, persisted[id]>> \in indexed

\* C4 witness: a ledger that started empty holds entries for both documents
C4_Witness ==
    /\ freshLedger
    /\ ledgerFile.kind = "ok"
    /\ DOMAIN persisted = Ids

\* C5: a run that completes over a corpus that did not change under it
\* leaves every candidate that has a fingerprint in the persisted ledger with
\* that fingerprint, whatever earlier runs left behind; the run after it
\* uploads none of those documents
C5_Rerunnable ==
    /\ (pc = "done" /\ ~changedInRun) =>
            \A i \in Ids :
                (corpus[i] # Missing /\ hasMd5[i]) =>
                    ledgerFile.kind = "ok" /\ Get(persisted, i) = corpus[i]
    /\ prevClean => \A k \in 1..Len(runUploads) : ~hasMd5[runUploads[k].id]

\* C5 witness: a run completed with uploads while the temporary copy of an
\* earlier, aborted or killed run is still there
C5_Witness ==
    /\ pc = "done"
    /\ ~changedInRun
    /\ runUploads # <<>>
    /\ DOMAIN tmpFiles # {}

\* C6: with a persisted non-empty store name, load_or_create_store returns
\* that name, creates no store and does not write the store name file
C6_ExistingStoreReused ==
    [][(pc = "load_store" /\ storeFile.exists /\ Strip(storeFile.text) # <<>>) =>
            /\ storesCreated' = storesCreated
            /\ storeFile' = storeFile
            /\ pc' \in {"load_store", "load_state", "idle"}
            /\ pc' = "load_state" => store_name' = Strip(storeFile.text)]_vars

\* C6 witness: the persisted name was returned and no store was created
C6_Witness ==
    /\ pc = "load_state"
    /\ storeFile = TextFile(<<"s0", WS>>)
    /\ store_name = <<"s0">>
    /\ storesCreated = 0

\* C7: over all runs, interrupted ones included, at most one store is created
C7_AtMostOneStore == storesCreated <= 1

\* C8 as stated: after a run that completed, a document uploaded without
\* fingerprint has no ledger entry
C8_Original ==
    pc = "done" =>
        \A k \in 1..Len(runUploads) :
            runUploads[k].fp = None => runUploads[k].id \notin DOMAIN persisted

\* C8 as amended: after a run that completed, the ledger entry of a document
\* uploaded without fingerprint is what it was before the run (none, or the
\* fingerprint an earlier run committed); a candidate without fingerprint is
\* classified for upload in every run
C8_AbsentFingerprintNotCommitted ==
    /\ pc = "done" =>
            \A k \in 1..Len(runUploads) :
                runUploads[k].fp = None =>
                    Get(persisted, runUploads[k].id) = Get(loaded, runUploads[k].id)
    /\ variant = "gcp" =>
            \A k \in Classified :
                candidates[k].fp = None => classified[candidates[k].id] \in {"NEW", "CHANGED"}

\* C8 witness: a completed run uploaded a document without fingerprint that
\* the ledger already knew
C8_Witness ==
    /\ pc = "done"
    /\ \E k \in 1..Len(runUploads) :
            /\ runUploads[k].fp = None
            /\ runUploads[k].id \in DOMAIN loaded

\* C9: while the persisted ledger is malformed no step uploads a document or
\* writes the ledger, and the run gets no further than the load
C9_MalformedLedgerAborts ==
    [][ledgerFile.kind = "malformed" =>
            /\ ledgerFile' = ledgerFile
            /\ indexed' = indexed
            /\ runUploads' = <<>>
            /\ pc' \in {"idle", "load_store", "create", "persist_store", "load_state", "aborted"}]_vars

\* C9 witness: a run over a corpus with a document aborted on the malformed ledger
C9_Witness ==
    /\ pc = "aborted"
    /\ ledgerFile.kind = "malformed"
    /\ \E i \in Ids : corpus[i] # Missing
    /\ runUploads = <<>>

\* C10: when a run of the GCS indexer has ended, completed or aborted, no
\* temporary copy it staged is left
C10_TmpRemoved == pc \in {"done", "aborted"} => staged \cap DOMAIN tmpFiles = {}

\* C11: a well-formed ledger saved and loaded back is the same mapping, and
\* loading with nothing persisted gives the empty mapping
C11_RoundTrip ==
    /\ pc = "rt_loaded" => loaded = state
    /\ pc = "rt_nothing" => loaded = EmptyMap

\* C11 witness: a ledger with three entries came back from the file
C11_Witness ==
    /\ pc = "rt_loaded"
    /\ Cardinality(DOMAIN state) = 3
    /\ loaded = state

\* C12: the query service never serves with an empty store name: every
\* /status response says ready, no /ask is answered with the error, and every
\* /ask queries the persisted store handle
C12_ServesOnlyWithStore ==
    /\ appPc = "serving" => STORE_NAME # <<>>
    /\ response.kind = "status" => response.ready
    /\ response.kind # "error"
    /\ response.kind = "answer" => response.store_name = load_store_name(storeFile)

\* C12 witness: a question was answered from the store the indexer created
\* after an earlier start of the service had failed
C12_Witness ==
    /\ response.kind = "answer"
    /\ response.store_name = <<"s1">>
    /\ storesCreated = 1

\* the identifiers of this run's upload calls, in call order
UploadIds == [k \in 1..Len(runUploads) |-> runUploads[k].id]

\* the enumerated identifiers classified NEW or CHANGED, in enumeration order
ToUpload ==
    Listing([k \in 1..Len(candidates) |-> candidates[k].id],
            {i \in DOMAIN classified : classified[i] # "SKIP"})

\* C13: in a run that completed, the upload calls are those for the documents
\* classified NEW or CHANGED, one each, in enumeration order; none for a
\* document classified unchanged
C13_UploadsAreNewOrChanged == pc = "done" => UploadIds = ToUpload

\* C13 witness: the ledger knew a.txt, b.pdf was new: only b.pdf was
\* uploaded and the ledger holds both
C13_Witness ==
    /\ pc = "done"
    /\ Get(classified, "a.txt") = "SKIP"
    /\ Get(classified, "b.pdf") = "NEW"
    /\ UploadIds = <<"b.pdf">>
    /\ DOMAIN persisted = Ids

\* the positions of the process inside and right after the upload loop
UploadLoop == {"stage", "upload", "poll", "save"}

\* this run's upload calls whose operation has not reached done
PendingUploads ==
    {k \in 1..Len(runUploads) : <<runUploads[k].id, runUploads[k].fp>> \notin indexed}

\* C14: within a run a document is uploaded, polled to done and committed
\* before the upload of the next one is submitted: an in-memory entry is set
\* only for an operation that reported done, every earlier document of the
\* loop is done and committed when the next is submitted, and at most one
\* operation is pending
C14_OneDocumentAtATime ==
    /\ pc \in UploadLoop =>
        /\ Len(runUploads) = (IF pc = "poll" THEN idx ELSE idx - 1)
        /\ \A k \in 1..Len(runUploads) :
                k < idx =>
                    /\ <<runUploads[k].id, runUploads[k].fp>> \in indexed
                    /\ runUploads[k].fp # None => Get(state, runUploads[k].id) = runUploads[k].fp
    /\ \A i \in DOMAIN state :
            state[i] # Get(loaded, i) => <<i, state[i]>> \in indexed
    /\ Cardinality(PendingUploads) <= 1
    /\ PendingUploads # {} => pc \in {"poll", "aborted"} /\ op = "pending"

\* C14 witness: the first document is committed and the operation of the
\* second one is pending
C14_Witness ==
    /\ pc = "poll"
    /\ op = "pending"
    /\ idx = 2
    /\ PendingUploads = {2}
    /\ Get(state, runUploads[1].id) = runUploads[1].fp
    /\ Get(loaded, runUploads[1].id) # runUploads[1].fp

\* C15: a run that aborts on a failing upload or poll has written no ledger:
\* the persisted ledger is the one it loaded, also when earlier documents of
\* the run were done and committed in memory; an aborted run uploads nothing
\* more, writes nothing and does not retry
C15_AbortWritesNothing ==
    [][/\ (pc' = "aborted" /\ ~json_load_raises(ledgerFile')) =>
            /\ ledgerFile' = ledgerFile
            /\ persisted' = loaded'
       /\ pc = "aborted" =>
            /\ pc' \in {"aborted", "idle"}
            /\ ledgerFile' = ledgerFile
            /\ indexed' = indexed
            /\ Len(runUploads') <= Len(runUploads)]_vars

\* C15 witness: the run aborted at its second document; the first one is
\* done and committed in memory, the persisted ledger is as loaded
C15_Witness ==
    /\ pc = "aborted"
    /\ Len(new_or_changed) = 2
    /\ idx = 2
    /\ <<new_or_changed[1].id, new_or_changed[1].fp>> \in indexed
    /\ Get(state, new_or_changed[1].id) = new_or_changed[1].fp
    /\ Get(persisted, new_or_changed[1].id) # new_or_changed[1].fp
    /\ persisted = loaded

\* C16: the poll loop has no bound.  While an operation is pending the run
\* takes no step but the poll that finds it done: it stays in the poll loop,
\* submits no further upload and writes no ledger.  When every operation
\* is eventually done (and no call fails), a run that reached the poll loop
\* ends with the ledger persisted.
C16_PollLoopUnbounded ==
    /\ [][op = "pending" =>
            /\ op' = "done"
            /\ pc = "poll" /\ pc' = "poll"
            /\ idx' = idx
            /\ runUploads' = runUploads
            /\ ledgerFile' = ledgerFile]_vars
    /\ ([]<>(op # "pending")) =>
            ((pc = "poll") ~> (pc = "done" /\ ledgerFile = LedgerOf(state)))
    /\ (<>[](op = "pending")) =>
            <>[](pc = "poll" /\ persisted = loaded /\ Len(runUploads) = idx)

\* C16 witness: the first of two uploads is pending, the second document waits
C16_Witness ==
    /\ pc = "poll"
    /\ op = "pending"
    /\ idx = 1
    /\ Len(new_or_changed) = 2
    /\ Len(runUploads) = 1
    /\ persisted = loaded

\* the fingerprint a run finds for a document of the corpus
Fingerprint(id) == IF variant = "local" THEN corpus[id] ELSE md5_hash(id)

\* the documents the store holds with their present fingerprint while the
\* ledger this run loaded does not say so
StoredUnrecorded ==
    {id \in Ids : /\ corpus[id] # Missing
                  /\ <<id, Fingerprint(id)>> \in indexed
                  /\ ExpectedClass(loaded, id, Fingerprint(id)) # "SKIP"}

\* C17: a kill between an upload's done and save_index_state leaves the
\* store with the document and the ledger without it; the next run over the
\* unchanged corpus looks at the ledger only, so it puts the document in its
\* upload set and, when it completes, has uploaded it again
C17_UploadedAgainAfterInterrupt ==
    /\ [][(pc \in {"stage", "upload", "poll"} /\ pc' = "idle") =>
            /\ ledgerFile' = ledgerFile
            /\ indexed' = indexed]_vars
    /\ [](pc \in {"stage", "upload", "poll", "save", "done"} =>
            \A id \in StoredUnrecorded :
                /\ \E k \in 1..Len(new_or_changed) :
                        new_or_changed[k] = [id |-> id, fp |-> Fingerprint(id)]
                /\ pc \in {"save", "done"} =>
                        \E k \in 1..Len(runUploads) :
                            /\ runUploads[k].id = id
                            /\ runUploads[k].fp = Fingerprint(id)
                            /\ runUploads[k].content = corpus[id])

\* C17 witness: the document is in the store with this fingerprint from a
\* run that was killed, and the same document is submitted again
C17_Witness ==
    /\ pc = "poll"
    /\ op = "pending"
    /\ new_or_changed[idx].fp # None
    /\ new_or_changed[idx].fp = corpus[new_or_changed[idx].id]
    /\ <<new_or_changed[idx].id, new_or_changed[idx].fp>> \in indexed
    /\ runUploads[Len(runUploads)].id = new_or_changed[idx].id

\* C18: nothing serialises two runs.  Whatever the other process has done,
\* a write of the ledger installs the writer's in-memory ledger and a write
\* of the store name file installs the writer's store name (the last writer
\* wins); so both runs can create a store, one name staying persisted, and
\* a ledger write can drop an entry the other run committed and saved.
C18_LastWriterWins ==
    [][/\ (pc = "save" /\ pc' = "done" /\ other' = other) => ledgerFile' = LedgerOf(state)
       /\ ledgerFile' # ledgerFile => pc = "save"
       /\ storeFile' # storeFile =>
            /\ storeFile' = TextFile(store_name)
            /\ store_name = NewStoreName(storesCreated) \/ other.store_name = NewStoreName(storesCreated)
       /\ (pc = "create" /\ storesCreated' # storesCreated) =>
            /\ storesCreated' = storesCreated + 1
            /\ load_store_name(storeFile) = <<>> \/ other.pc \in {"load_state", "list", "detect", "stage", "upload", "poll", "save", "done", "aborted"}]_vars

\* C18 witness: both runs have created a store and one name is persisted;
\* both have saved, and an entry the other run uploaded, committed and saved
\* is missing from the ledger the last writer left
C18_Witness ==
    /\ storesCreated = 2
    /\ store_name # other.store_name
    /\ storeFile \in {TextFile(store_name), TextFile(other.store_name)}
    /\ pc = "done"
    /\ other.pc = "done"
    /\ ledgerFile = LedgerOf(state)
    /\ \E k \in 1..Len(other.runUploads) :
            /\ Get(other.state, other.runUploads[k].id) = other.runUploads[k].fp
            /\ other.runUploads[k].fp # None
            /\ other.runUploads[k].id \notin DOMAIN persisted

\* the identifiers of the run's upload set
UploadSet == {new_or_changed[k].id : k \in 1..Len(new_or_changed)}

\* C19: a run changes the ledger only for documents it uploaded: the
\* persisted entry of every identifier outside the run's upload set stays
\* what it was, so no entry is removed; a run whose upload set is empty
\* writes no ledger and uploads nothing
C19_FrameOfARun ==
    [][/\ \A id \in DOMAIN persisted \cup DOMAIN persisted' :
            id \notin UploadSet => Get(persisted', id) = Get(persisted, id)
       /\ DOMAIN persisted \subseteq DOMAIN persisted'
       /\ new_or_changed = <<>> =>
            /\ ledgerFile' = ledgerFile
            /\ indexed' = indexed
            /\ runUploads' = <<>>]_vars

====
